---- MODULE Spec2Model ----
(***************************************************************************)
(* Model of whisper/whisper_streaming_server.py: the session registry, the *)
(* per-session bounded audio queues, the background scheduler, the         *)
(* translation router and the broadcast fan-out of WhisperStreamingServer. *)
(*                                                                         *)
(* All coroutines run on one asyncio event loop.  An action is the code a  *)
(* task runs between two points where it can be suspended.  The scheduler  *)
(* is cut into smaller steps; while it is between two suspension points    *)
(* (LoopBlocked) no other task has a step.                                 *)
(***************************************************************************)
EXTENDS Integers, Sequences, FiniteSets, TLC

VARIABLES
    conn,        \* per connection: handle_client's position and its client_id
    delivered,   \* per connection: what the broadcast in progress delivered to it
    clients,     \* self.clients, an insertion-ordered dict user_id -> session
    sessions,    \* every ClientSession object created so far (by reference)
    stats,       \* self.stats
    cache,       \* self.translator.cache
    last_request_time, \* providers with an entry in translator.last_request_time
    sched,       \* _background_processor: position, locals of the calls it is in
    hist,        \* history of the current pass and broadcast (not program state)
    call,        \* a translate call made on the translator directly: its frame
    clock,       \* time.time() and the times in translator.last_request_time
    cache_rest,  \* number of cache entries for texts other than the model's
    vad          \* a process_audio call made on the audio processor directly

\* the variables only direct calls of the translator and of the audio
\* processor change
tvars == <<call, clock, cache_rest, vad>>

vars == <<conn, delivered, clients, sessions, stats, cache,
          last_request_time, sched, hist, tvars>>

----------------------------------------------------------------------------
(* Bounds of the model *)

\* number of connections the server accepts
NumConns == 2
\* number of distinct userId values clients supply
NumUserIds == 2
\* cap on stats.total_clients (successful registrations)
MaxRegistrations == 2
\* cap on the audio_data messages a session receives (Spec)
MaxAudio == 1
\* cap on the audio_data messages a session receives (QueueSpec)
MaxQueueAudio == 102
\* cap on the audio_data messages a session receives (OrderSpec)
MaxOrderAudio == 7
\* longest segment list the engine returns
MaxSegments == 1
\* --max-clients, the constructor's max_clients
max_clients == 2
\* number of translate calls made on the translator directly (TranslateSpec)
MaxTranslateCalls == 2
\* last reading of the clock, in tenths of a second (TranslateSpec)
MaxTime == 6
\* cap on the audio_data messages a session receives (SpeakerSpec)
MaxSpeakerAudio == 2
\* most complete 30 ms frames in a buffer handed to process_audio (VadSpec)
MaxFrames == 4

(* Program constants *)

\* queue.Queue(maxsize=100)
AudioBufferMaxSize == 100
\* len(audio_chunks) < 5
BatchLimit == 5
\* audio_metadata['quality'] < 0.2, in hundredths
QualityThreshold == 20
\* len(segment.text.strip()) < 3
MinSegmentChars == 3
\* text_confidence > 0.5, in hundredths
TextConfidenceThreshold == 50
\* cache_size_limit
cache_size_limit == 5000
\* self.frame_size * 2: the bytes of a 30 ms frame of 16-bit samples at 16 kHz
FrameBytes == 960

----------------------------------------------------------------------------
(* Values *)

Conns == 1..NumConns
None == <<"none", 0>>
UserIds == {<<"client", i>> : i \in 1..NumUserIds}
\* f'user_{int(time.time() * 1000)}': the n-th registration's clock reading
GeneratedId(n) == <<"user", n>>

\* keys of EnhancedLanguageDetector.LANGUAGE_MAP the model uses
LANGUAGE_MAP == {"auto", "en", "vi"}
\* displayLanguage values of connect and language_update messages
\* ("xx" is not in LANGUAGE_MAP, "absent" is a missing key)
DisplayLanguages == {"absent", "en", "vi", "xx"}

\* nativeLanguage values of language_update messages
NativeLanguages == {"absent", "vi", "xx"}

\* segment texts the engine returns (already stripped)
Texts == {"hello world", "ok"}
TextLen(t) == CASE t = "hello world" -> 11
                [] t = "xin chao the gioi" -> 17
                [] t = "ok" -> 2
                [] t = "duoc" -> 4
                [] t = "the is" -> 6
                [] OTHER -> 0

\* segment texts on which the text heuristic has something to say
ResolveTexts == {"hello world", "duoc", "the is"}

\* EnhancedLanguageDetector.detect_language_from_text on the segment texts,
\* the confidence in hundredths.  "duoc" stands for the Vietnamese word
\* written with its diacritics (U+0111 U+01B0 U+1EE3 c): three of its four characters are
\* in LANGUAGE_PATTERNS['vi'] (0.75) and its one word is a common word of
\* 'vi' (+ 0.5), so the result is ('vi', min(1.25, 1.0)).  "the is" has no
\* pattern character and both words are common words of 'en' alone:
\* ('en', 2 / 2 * 0.5).  The other segment texts hold no pattern character and
\* no common word, so scores is empty and the result is ('en', 0.1)
detect_language_from_text(t) ==
    CASE t = "duoc" -> [lang |-> "vi", confidence |-> 100]
      [] t = "the is" -> [lang |-> "en", confidence |-> 50]
      [] OTHER -> [lang |-> "en", confidence |-> 10]

----------------------------------------------------------------------------
(* The dict self.clients as a sequence of entries in insertion order *)

Keys(d) == {d[i].key : i \in DOMAIN d}
HasKey(d, k) == \E i \in DOMAIN d : d[i].key = k
IndexOf(d, k) == CHOOSE i \in DOMAIN d : d[i].key = k
DictGet(d, k) == d[IndexOf(d, k)].sid
DictSet(d, k, v) ==
    IF HasKey(d, k) THEN [d EXCEPT ![IndexOf(d, k)].sid = v]
    ELSE Append(d, [key |-> k, sid |-> v])
DictPop(d, k) == SelectSeq(d, LAMBDA e : e.key # k)

Min(a, b) == IF a < b THEN a ELSE b

----------------------------------------------------------------------------
(* Initial state: __init__ and initialize() have run, nobody is connected, *)
(* the scheduler task is at its sleep                                      *)

NoKey == [text |-> "", source |-> "", target |-> ""]

NoBatch == [session |-> 0, chunks |-> <<>>, speaker_id |-> None,
            metadata |-> [is_voice |-> FALSE, quality |-> 0]]

SchedInit == [pc |-> "sleep", snapshot |-> <<>>, idx |-> 1, batch |-> NoBatch,
              segments |-> <<>>, language |-> "", key |-> NoKey, provider |-> 0,
              results |-> <<>>, bc_items |-> <<>>, bc_visited |-> {},
              bc_yield |-> FALSE, disconnected_clients |-> <<>>,
              outcome |-> "none"]

\* owed: sessions that had queued audio, later in the pass, when an engine call
\*       failed, and have not had their turn yet
\* errors0, error_count0: the error counters when the batch was drained
\* bc_closed, bc_attempted: the registry's sessions with a closed connection
\*       when the fan-out began, and the sessions it tried to send to
\* refused: the last change or refusal at the registry was a refusal
\* after_failure: the batch in hand belongs to a session that was owed
\* update: the last language_update handled for a registered connection: the
\*       session, the two codes, and the session's languages before it
\* sent: per session object, the last chunk of the latest batch of which a
\*       result was handed to broadcast_transcription (0: none yet)
NoUpdate == [sid |-> 0, displayLanguage |-> "", nativeLanguage |-> "",
             target_language |-> "", native_language |-> ""]

\* requested: whether _transcribe_audio called translate for the segment it
\*       handled last ("none": no segment kept since the engine returned)
\* drained: per session object, the last chunk the scheduler took from its
\*       queue (0: none yet)
\* reply: the last error reply handle_client sent for a message it could not
\*       dispatch: the connection, the message and the reply's text
NoReply == [conn |-> 0, raw |-> "", message |-> ""]

HistInit == [owed |-> {}, after_failure |-> FALSE, refused |-> FALSE,
             errors0 |-> 0, error_count0 |-> 0,
             bc_closed |-> {}, bc_attempted |-> {}, sent |-> <<>>,
             update |-> NoUpdate, drained |-> <<>>, reply |-> NoReply,
             requested |-> "none"]

NoDelivery == [c \in 1..NumConns |-> <<>>]

\* a translator that asks mymemory first
ProvidersReversed == <<"mymemory", "google">>

\* translator.providers, in dict order
Providers == <<"google", "mymemory">>

\* no translate call is in progress.  Beside the frame of the call (pc, text,
\* source_lang, target_lang, provider, wake, ret) the record keeps its
\* history: done (calls made), requests (provider requests of this call),
\* cache0 and rest0 (the cache when the call began), hit (the key was cached
\* then), before (the cache before the last assignment to it), stored (a
\* provider of this call returned a usable translation at a time when
\* len(cache) was the value recorded, else -1), issued (when each provider
\* was last sent a request), gap (the time between its last two requests),
\* contacted (the providers this call sent a request, in order), outcomes
\* (what each of these requests ended in: "raised" for an exception such as a
\* timeout, "status" for an error status, "same" for the input text, "empty"
\* for no text, "changed" for another text),
\* from_cache (the call was answered from the cache) and produced (the
\* translations providers have returned so far, each with the full text and
\* the language pair it was returned for)
CallInit ==
    [pc |-> "idle", text |-> "", source_lang |-> "", target_lang |-> "",
     provider |-> 0, wake |-> 0, ret |-> [text |-> "", confidence |-> 0],
     done |-> 0, requests |-> 0, cache0 |-> {}, rest0 |-> 0, hit |-> FALSE,
     before |-> {}, stored |-> -1, from_cache |-> FALSE, produced |-> {},
     contacted |-> <<>>, outcomes |-> <<>>,
     issued |-> [p \in {"google", "mymemory"} |-> -1],
     gap |-> [p \in {"google", "mymemory"} |-> -1]]

\* time.time() is 0 when the model starts; last_time holds
\* translator.last_request_time[p] for the providers that have an entry
ClockInit == [now |-> 0, last_time |-> [p \in {"google", "mymemory"} |-> 0]]

\* no process_audio call has been made.  len is len(audio_data) as passed,
\* frames is what self.vad.is_speech does with each complete frame of the
\* buffer, quality is the overall_quality of _assess_audio_quality, metadata
\* is the dict returned, raised tells that is_speech raised on a frame it was
\* given, and rejected is the decision of the quality gate on the metadata
VadInit == [pc |-> "idle", len |-> 0, frames |-> <<>>, quality |-> 0,
            metadata |-> [is_voice |-> FALSE, quality |-> 0],
            raised |-> FALSE, rejected |-> FALSE]

Init ==
    /\ conn = [c \in Conns |-> [state |-> "new", client_id |-> None]]
    /\ delivered = NoDelivery
    /\ clients = <<>>
    /\ sessions = <<>>
    /\ stats = [total_clients |-> 0, active_clients |-> 0,
                total_transcriptions |-> 0, total_translations |-> 0,
                error_count |-> 0]
    /\ cache = {}
    /\ last_request_time = {}
    /\ sched = SchedInit
    /\ hist = HistInit
    /\ call = CallInit
    /\ clock = ClockInit
    /\ cache_rest = 0
    /\ vad = VadInit

----------------------------------------------------------------------------
(* The event loop *)

\* The scheduler is inside synchronous code: self.model.transcribe (line 692)
\* and requests.get (lines 263, 287) are called on the loop's thread, not
\* through self.thread_pool, and the code between two awaits that suspend
\* runs without interruption.  The scheduler can be suspended at
\* asyncio.sleep (lines 633, 242: only when the provider has a last request
\* time) and in websocket.send (line 848, reached from line 775).
LoopBlocked ==
    \/ sched.pc \in {"visit", "gate", "engine", "segment", "http", "results",
                     "bc_done", "batch_done"}
    \/ sched.pc = "bc" /\ ~sched.bc_yield
    \/ sched.pc = "translate" /\ Providers[sched.provider] \notin last_request_time

----------------------------------------------------------------------------
(* Session registry *)

NewStats == [audio_chunks_received |-> 0, transcriptions_sent |-> 0,
             translations_sent |-> 0, errors |-> 0]

\* a capacity test that lets one session too many in
AtCapacityOffByOne == Len(clients) > max_clients

\* len(self.clients) >= self.max_clients
AtCapacity == Len(clients) >= max_clients

\* a register_client that counts up instead of recounting the registry
ActiveClientsIncremented(d) == stats.active_clients + 1

\* self.stats['active_clients'] = len(self.clients), in register_client
ActiveClientsRegistered(d) == Len(d)

\* self.stats['active_clients'] = len(self.clients), in _cleanup_client
ActiveClients(d) == Len(d)

\* register_client(websocket, user_data); it returns False iff AtCapacity
register_client(c, userId, displayLanguage) ==
    IF AtCapacity
    THEN /\ hist' = [hist EXCEPT !.refused = TRUE]
         /\ UNCHANGED <<clients, sessions, stats>>
    ELSE LET user_id == IF userId = None
                        THEN GeneratedId(stats.total_clients + 1) ELSE userId
             target_language == IF displayLanguage \in LANGUAGE_MAP
                                THEN displayLanguage ELSE "en"
             session == [websocket |-> c, user_id |-> user_id,
                         target_language |-> target_language,
                         native_language |-> "auto",
                         is_active |-> TRUE, audio_buffer |-> <<>>,
                         processing_stats |-> NewStats]
             sid == Len(sessions) + 1
             newclients == DictSet(clients, user_id, sid)
         IN  /\ sessions' = Append(sessions, session)
             /\ clients' = newclients
             /\ stats' = [stats EXCEPT !.total_clients = @ + 1,
                                       !.active_clients = ActiveClientsRegistered(newclients)]
             /\ hist' = [hist EXCEPT !.refused = FALSE, !.sent = Append(@, 0),
                                         !.drained = Append(@, 0)]

\* a _cleanup_client that counts down whether or not it found the session
CleanupResultCountDown(user_id) ==
    [clients |-> DictPop(clients, user_id),
     sessions |-> IF HasKey(clients, user_id)
                  THEN [sessions EXCEPT ![DictGet(clients, user_id)].is_active = FALSE]
                  ELSE sessions,
     stats |-> [stats EXCEPT !.active_clients = @ - 1]]

\* _cleanup_client(user_id) as the new <<clients, sessions, stats>>
CleanupResult(user_id) ==
    IF HasKey(clients, user_id)
    THEN LET sid == DictGet(clients, user_id)
             popped == DictPop(clients, user_id)
         IN  [clients |-> popped,
              sessions |-> [sessions EXCEPT ![sid].is_active = FALSE],
              stats |-> [stats EXCEPT !.active_clients = ActiveClients(popped)]]
    ELSE [clients |-> clients, sessions |-> sessions, stats |-> stats]

_cleanup_client(user_id) ==
    LET r == CleanupResult(user_id)
    IN  /\ clients' = r.clients
        /\ sessions' = r.sessions
        /\ stats' = r.stats
        /\ hist' = [hist EXCEPT !.refused = @ /\ ~HasKey(clients, user_id)]

\* a fullness test that lets one chunk too many in
BufferFullOffByOne(sid) == Len(sessions[sid].audio_buffer) > AudioBufferMaxSize

\* session.audio_buffer.full()
BufferFull(sid) == Len(sessions[sid].audio_buffer) >= AudioBufferMaxSize

\* a put that adds the chunk at the head of the queue
PutFirst(buffer, audio_chunk) == <<audio_chunk>> \o buffer

\* session.audio_buffer.put(audio_chunk)
Put(buffer, audio_chunk) == Append(buffer, audio_chunk)

\* handle_audio_data(session, message) with a decodable, non-empty audioData;
\* the payload is named by its ordinal among the session's chunks
handle_audio_data(sid, speakerId) ==
    LET n == sessions[sid].processing_stats.audio_chunks_received + 1
        audio_chunk == [session |-> sid, audio_data |-> n,
                        speaker_id |-> IF speakerId = None
                                       THEN sessions[sid].user_id ELSE speakerId]
    IN  sessions' = [sessions EXCEPT
            ![sid].processing_stats.audio_chunks_received = n,
            ![sid].audio_buffer = IF BufferFull(sid) THEN @
                                  ELSE Put(@, audio_chunk)]

\* a handle_language_change that applies the two codes together or not at all
handle_language_change_both(c, sid, displayLanguage, nativeLanguage) ==
    IF displayLanguage \in LANGUAGE_MAP /\ nativeLanguage \in LANGUAGE_MAP
    THEN sessions' = [sessions EXCEPT ![sid].target_language = displayLanguage,
                                      ![sid].native_language = nativeLanguage]
    ELSE UNCHANGED sessions

\* handle_language_change(session, message); "absent" is a missing key, which
\* message.get turns into None
handle_language_change(c, sid, displayLanguage, nativeLanguage) ==
    sessions' = [sessions EXCEPT
        ![sid].target_language =
            IF displayLanguage \in LANGUAGE_MAP THEN displayLanguage ELSE @,
        ![sid].native_language =
            IF nativeLanguage \in LANGUAGE_MAP THEN nativeLanguage ELSE @]

----------------------------------------------------------------------------
(* handle_client: one action per inbound event of a connection *)

\* client_id and client_id in self.clients
Registered(c) == conn[c].client_id # None /\ HasKey(clients, conn[c].client_id)

Receiving(c) == conn[c].state = "open" /\ ~LoopBlocked

\* websockets.serve starts handle_client for a new connection
Accept(c) ==
    /\ conn[c].state = "new"
    /\ ~LoopBlocked
    /\ conn' = [conn EXCEPT ![c].state = "open"]
    /\ UNCHANGED <<delivered, clients, sessions, stats, cache,
                   last_request_time, tvars, sched, hist>>

\* message_type == 'connect'
OnConnect(c, userId, displayLanguage) ==
    /\ Receiving(c)
    /\ register_client(c, userId, displayLanguage)
    /\ conn' = [conn EXCEPT ![c].client_id = IF AtCapacity THEN @ ELSE userId]
    /\ UNCHANGED <<delivered, cache, last_request_time, tvars, sched>>

\* message_type == 'audio_data'
OnAudioData(c, speakerId) ==
    /\ Receiving(c)
    /\ IF Registered(c)
       THEN handle_audio_data(DictGet(clients, conn[c].client_id), speakerId)
       ELSE UNCHANGED sessions
    /\ UNCHANGED <<conn, delivered, clients, stats, cache, last_request_time, tvars,
                   sched, hist>>

\* message_type == 'language_update'
OnLanguageUpdate(c, displayLanguage, nativeLanguage) ==
    /\ Receiving(c)
    /\ IF Registered(c)
       THEN LET sid == DictGet(clients, conn[c].client_id)
            IN  /\ handle_language_change(c, sid, displayLanguage, nativeLanguage)
                /\ hist' = [hist EXCEPT !.update =
                        [sid |-> sid, displayLanguage |-> displayLanguage,
                         nativeLanguage |-> nativeLanguage,
                         target_language |-> sessions[sid].target_language,
                         native_language |-> sessions[sid].native_language]]
       ELSE UNCHANGED <<sessions, hist>>
    /\ UNCHANGED <<conn, delivered, clients, stats, cache, last_request_time, tvars,
                   sched>>

\* message_type == 'ping'
OnPing(c) ==
    /\ Receiving(c)
    /\ UNCHANGED <<conn, delivered, clients, sessions, stats, cache,
                   last_request_time, tvars, sched, hist>>

\* Messages handle_client cannot dispatch:
\*   "malformed_text"    a text frame that is not JSON, such as '{bad'
\*   "undecodable_bytes" a binary frame that is not UTF-8, such as b'\x80abc'
\*   "not_object"        JSON that is not an object, such as '[1, 2]'
\*   "unknown_type"      an object whose 'type' is none of the handled ones
\*   "no_type"           an object without a 'type' key
OtherMessages == {"malformed_text", "undecodable_bytes", "not_object",
                  "unknown_type", "no_type"}

\* json.loads(message_raw) and message.get('type'): the exception raised, or
\* "none" when the message type was read.  json.loads decodes bytes before
\* it parses them, and the UnicodeDecodeError of the decoding is a ValueError
\* that is not a JSONDecodeError
ParseError(message_raw) ==
    CASE message_raw = "malformed_text" -> "JSONDecodeError"
      [] message_raw = "undecodable_bytes" -> "UnicodeDecodeError"
      [] message_raw = "not_object" -> "AttributeError"
      [] OTHER -> "none"

\* the text of the error reply: the else branch of the dispatch (line 908)
\* and the two except clauses (lines 910-914)
ErrorReply(message_raw) ==
    CASE ParseError(message_raw) = "JSONDecodeError" -> "Invalid JSON format"
      [] ParseError(message_raw) = "none" -> "Unknown message type"
      [] OTHER -> "Message processing failed"

\* a message that is not dispatched: send_error, then the next message
OnOtherMessage(c, message_raw) ==
    /\ Receiving(c)
    /\ hist' = [hist EXCEPT !.reply = [conn |-> c, raw |-> message_raw,
                                       message |-> ErrorReply(message_raw)]]
    /\ UNCHANGED <<conn, delivered, clients, sessions, stats, cache,
                   last_request_time, tvars, sched>>

\* the peer closes the connection: from now on websocket.send raises
\* ConnectionClosed and the handler's `async for` ends when it next runs
Close(c) ==
    /\ conn[c].state = "open"
    /\ ~LoopBlocked
    /\ conn' = [conn EXCEPT ![c].state = "closed"]
    /\ UNCHANGED <<delivered, clients, sessions, stats, cache,
                   last_request_time, tvars, sched, hist>>

\* handle_client leaves its loop; finally: if client_id: _cleanup_client
HandlerExit(c) ==
    /\ conn[c].state = "closed"
    /\ ~LoopBlocked
    /\ conn' = [conn EXCEPT ![c] = [state |-> "exited", client_id |-> None]]
    /\ IF conn[c].client_id # None
       THEN _cleanup_client(conn[c].client_id)
       ELSE UNCHANGED <<clients, sessions, stats, hist>>
    /\ UNCHANGED <<delivered, cache, last_request_time, tvars, sched>>

----------------------------------------------------------------------------
(* Translation router: EnhancedTranslator *)

\* _normalize_lang_code
_normalize_lang_code(lang_code) ==
    IF lang_code = "zh" THEN "zh-cn" ELSE lang_code

\* Texts handed to translate directly.  "H100+a" and "H100+b" are two texts
\* longer than 100 characters with the same first 100 characters "H100";
\* "S100" is 100 spaces and "S100+a" is 100 spaces followed by a word.
TranslateTexts == {"", "hello world", "H100+a", "H100+b", "S100", "S100+a"}

\* text[:100]
Prefix100(text) ==
    CASE text \in {"H100+a", "H100+b"} -> "H100"
      [] text = "S100+a" -> "S100"
      [] OTHER -> text

\* not text.strip()
IsBlank(text) == text \in {"", "S100"}

\* cache_key = f"{text[:100]}:{source_lang}:{target_lang}"
CacheKey(text, source_lang, target_lang) ==
    [text |-> Prefix100(text), source |-> source_lang, target |-> target_lang]

\* len(self.cache)
CacheLen == Cardinality(cache) + cache_rest

\* a capacity test that lets one entry too many in
CacheHasRoomOffByOne == CacheLen <= cache_size_limit

\* len(self.cache) < self.cache_size_limit
CacheHasRoom == CacheLen < cache_size_limit

CacheHas(key) == \E e \in cache : e.key = key
CacheGet(key) == (CHOOSE e \in cache : e.key = key).value

\* what a provider's HTTP request can end in
ProviderTexts == {"hello world", "xin chao the gioi"}
ProviderResponses ==
    {[kind |-> "raise", text |-> "", match |-> 0],
     [kind |-> "status", text |-> "", match |-> 0]}
    \cup {[kind |-> "ok", text |-> t, match |-> 100] : t \in ProviderTexts}

\* _translate_google / _translate_mymemory: the (text, confidence) returned
ProviderResult(provider, text, resp) ==
    IF resp.kind # "ok" THEN [text |-> text, confidence |-> 0]
    ELSE IF provider = "google"
         THEN [text |-> resp.text,
               confidence |-> IF resp.text # text THEN 80 ELSE 0]
         ELSE [text |-> resp.text, confidence |-> Min(resp.match, 70)]

----------------------------------------------------------------------------
(* Scheduler: _background_processor and the calls it makes *)

Session(sid) == sessions[sid]

\* a scheduler that collects no chunk
BatchSizeZero(buf) == 0

\* the chunks collected by `while not session.audio_buffer.empty() and
\* len(audio_chunks) < 5`
BatchSize(buf) == Min(BatchLimit, Len(buf))

\* a scheduler that reads the chunks of a batch and leaves them in the queue
DrainNone(buf, n) == buf

\* the queue after n calls of session.audio_buffer.get_nowait()
Drain(buf, n) == SubSeq(buf, n + 1, Len(buf))

\* for user_id, session in list(self.clients.items())
SchedWake ==
    /\ sched.pc = "sleep"
    /\ sched' = [sched EXCEPT !.pc = "visit", !.idx = 1,
                     !.snapshot = [i \in 1..Len(clients) |-> clients[i].sid]]
    /\ hist' = [hist EXCEPT !.owed = {}]
    /\ UNCHANGED <<conn, delivered, clients, sessions, stats, cache,
                   last_request_time, tvars>>

\* one iteration of the for loop up to the call of _process_audio_chunks
SchedVisit ==
    /\ sched.pc = "visit"
    /\ sched.idx <= Len(sched.snapshot)
    /\ LET sid == sched.snapshot[sched.idx]
           buf == Session(sid).audio_buffer
           n == BatchSize(buf)
           audio_chunks == SubSeq(buf, 1, n)
       IN  IF ~Session(sid).is_active \/ n = 0
           THEN /\ sched' = [sched EXCEPT !.idx = @ + 1]
                /\ hist' = [hist EXCEPT !.owed =
                                IF Session(sid).is_active THEN @ ELSE @ \ {sid}]
                /\ UNCHANGED sessions
           ELSE /\ sessions' = [sessions EXCEPT
                        ![sid].audio_buffer = Drain(buf, n)]
                /\ sched' = [sched EXCEPT !.pc = "gate",
                        !.batch = [session |-> audio_chunks[1].session,
                                   chunks |-> audio_chunks,
                                   speaker_id |-> audio_chunks[1].speaker_id,
                                   metadata |-> NoBatch.metadata]]
                /\ hist' = [hist EXCEPT !.owed = @ \ {sid},
                        !.drained[sid] = audio_chunks[n].audio_data,
                        !.after_failure = sid \in hist.owed,
                        !.errors0 = Session(audio_chunks[1].session).processing_stats.errors,
                        !.error_count0 = stats.error_count]
    /\ UNCHANGED <<conn, delivered, clients, stats, cache, last_request_time, tvars>>

\* the for loop is exhausted: await asyncio.sleep(0.1)
SchedPassEnd ==
    /\ sched.pc = "visit"
    /\ sched.idx > Len(sched.snapshot)
    /\ sched' = [sched EXCEPT !.pc = "sleep", !.snapshot = <<>>, !.idx = 1]
    /\ UNCHANGED <<conn, delivered, clients, sessions, stats, cache,
                   last_request_time, tvars, hist>>

\* _process_audio_chunks up to the quality gate; process_audio's result is
\* the environment's (it depends on the samples)
Qualities == {19, 20}

\* a gate that drops a batch only when it is both voiceless and poor
GateRejectsSilentOnly(is_voice, quality) ==
    ~is_voice /\ quality < QualityThreshold

\* not audio_metadata['is_voice'] or audio_metadata['quality'] < 0.2
GateRejects(is_voice, quality) ==
    ~is_voice \/ quality < QualityThreshold

QualityGate(is_voice, quality) ==
    /\ sched.pc = "gate"
    /\ IF GateRejects(is_voice, quality)
       THEN sched' = [sched EXCEPT !.pc = "batch_done", !.outcome = "skipped",
                !.batch.metadata = [is_voice |-> is_voice, quality |-> quality]]
       ELSE sched' = [sched EXCEPT !.pc = "engine",
                !.batch.metadata = [is_voice |-> is_voice, quality |-> quality]]
    /\ UNCHANGED <<conn, delivered, clients, sessions, stats, cache,
                   last_request_time, tvars, hist>>

\* sessions later in this pass that are active and have queued audio
LaterWithAudio ==
    {sched.snapshot[i] : i \in {j \in DOMAIN sched.snapshot :
        /\ j > sched.idx
        /\ Session(sched.snapshot[j]).is_active
        /\ Session(sched.snapshot[j]).audio_buffer # <<>>}}

\* self.model.transcribe, or the iteration of its segments, raises:
\* _transcribe_audio logs and returns [], _process_audio_chunks finds no
\* results and returns
\* an engine failure that is caught nowhere below _background_processor,
\* whose except clause sleeps and starts the next pass
TranscribeErrorAbortsPass ==
    [sched EXCEPT !.pc = "sleep", !.snapshot = <<>>, !.idx = 1,
                  !.batch = NoBatch, !.segments = <<>>, !.results = <<>>,
                  !.language = ""]

\* the except clause of _transcribe_audio: log, return []
TranscribeErrorCaught ==
    [sched EXCEPT !.pc = "batch_done", !.outcome = "engine_raised",
                  !.segments = <<>>, !.results = <<>>, !.language = ""]

EngineRaise ==
    /\ sched.pc \in {"engine", "segment"}
    /\ sched' = TranscribeErrorCaught
    /\ hist' = [hist EXCEPT !.owed = @ \cup LaterWithAudio,
                            !.requested = "none"]
    /\ UNCHANGED <<conn, delivered, clients, sessions, stats, cache,
                   last_request_time, tvars>>

\* self.model.transcribe returns (segments, info)
EngineLanguages == {"en"}
SegmentLists == UNION {[1..n -> Texts] : n \in 0..MaxSegments}
EngineReturn(segments, language) ==
    /\ sched.pc = "engine"
    /\ sched' = [sched EXCEPT !.pc = "segment", !.segments = segments,
                     !.language = language, !.results = <<>>]
    /\ UNCHANGED <<conn, delivered, clients, sessions, stats, cache,
                   last_request_time, tvars, hist>>

\* TranscriptionResult(...) of lines 731-747, read when the segment's
\* translation is known
Result(original_text, detected_lang, translated_text, translation_confidence) ==
    [speaker_id |-> sched.batch.speaker_id,
     original_text |-> original_text,
     original_language |-> detected_lang,
     translated_text |-> translated_text,
     target_language |-> Session(sched.batch.session).target_language,
     translation_confidence |-> translation_confidence,
     is_voice |-> sched.batch.metadata.is_voice,
     audio_quality |-> sched.batch.metadata.quality]

\* results.append(result) and the two counters of lines 749-753
AppendResult(r) ==
    /\ sched' = [sched EXCEPT !.pc = "segment", !.segments = Tail(@),
                     !.results = Append(@, r), !.key = NoKey, !.provider = 0]
    /\ stats' = [stats EXCEPT !.total_transcriptions = @ + 1,
            !.total_translations =
                IF r.translated_text # r.original_text THEN @ + 1 ELSE @]

\* a detected_lang that ignores the text heuristic
DetectedLangEngineOnly(text, language) ==
    IF language = "" THEN "en" ELSE language

\* detected_lang of lines 715-720
DetectedLang(text, language) ==
    IF detect_language_from_text(text).confidence > TextConfidenceThreshold
    THEN detect_language_from_text(text).lang
    ELSE IF language = "" THEN "en" ELSE language

\* one iteration of `for segment in segments`, up to a provider request
SegmentStep ==
    /\ sched.pc = "segment"
    /\ sched.segments # <<>>
    /\ LET original_text == Head(sched.segments)
           detected_lang == DetectedLang(original_text, sched.language)
           target == Session(sched.batch.session).target_language
           key == CacheKey(original_text, _normalize_lang_code(detected_lang),
                           _normalize_lang_code(target))
       IN  IF TextLen(original_text) < MinSegmentChars
           THEN /\ sched' = [sched EXCEPT !.segments = Tail(@)]
                /\ UNCHANGED stats
           ELSE IF detected_lang = target
           THEN AppendResult(Result(original_text, detected_lang, original_text, 100))
           ELSE IF _normalize_lang_code(detected_lang) = _normalize_lang_code(target)
                   /\ _normalize_lang_code(detected_lang) # "auto"
           THEN AppendResult(Result(original_text, detected_lang, original_text, 100))
           ELSE IF CacheHas(key)
           THEN AppendResult(Result(original_text, detected_lang, CacheGet(key), 90))
           ELSE /\ sched' = [sched EXCEPT !.pc = "translate", !.provider = 1,
                                 !.key = key]
                /\ UNCHANGED stats
    /\ hist' = [hist EXCEPT !.requested =
            IF TextLen(Head(sched.segments)) < MinSegmentChars THEN @
            ELSE IF DetectedLang(Head(sched.segments), sched.language)
                       # Session(sched.batch.session).target_language
                 THEN "yes" ELSE "no"]
    /\ UNCHANGED <<conn, delivered, clients, sessions, cache,
                   last_request_time, tvars>>

\* self.cache[cache_key] = result
CachePut(key, value) ==
    {e \in cache : e.key # key} \cup {[key |-> key, value |-> value]}

\* _translate_with_provider has slept out the rate limit and calls
\* requests.get
ProviderRequest ==
    /\ sched.pc = "translate"
    /\ sched' = [sched EXCEPT !.pc = "http"]
    /\ UNCHANGED <<conn, delivered, clients, sessions, stats, cache,
                   last_request_time, tvars, hist>>

\* requests.get returns or raises; the rest of translate's loop iteration
ProviderResponse(resp) ==
    /\ sched.pc = "http"
    /\ LET provider == Providers[sched.provider]
           text == sched.key.text
           r == ProviderResult(provider, text, resp)
           detected_lang == DetectedLang(text, sched.language)
       IN  /\ last_request_time' = IF resp.kind = "raise" THEN last_request_time
                                   ELSE last_request_time \cup {provider}
           /\ IF r.text # "" /\ r.text # text
              THEN /\ cache' = IF CacheHasRoom
                               THEN CachePut(sched.key, r.text) ELSE cache
                   /\ AppendResult(Result(text, detected_lang, r.text, r.confidence))
              ELSE IF sched.provider < Len(Providers)
              THEN /\ sched' = [sched EXCEPT !.pc = "translate", !.provider = @ + 1]
                   /\ UNCHANGED <<cache, stats>>
              ELSE /\ AppendResult(Result(text, detected_lang, text, 0))
                   /\ UNCHANGED cache
    /\ UNCHANGED <<conn, delivered, clients, sessions, hist, tvars>>

\* _transcribe_audio returns results to _process_audio_chunks
SegmentsDone ==
    /\ sched.pc = "segment"
    /\ sched.segments = <<>>
    /\ IF sched.results = <<>>
       THEN sched' = [sched EXCEPT !.pc = "batch_done", !.outcome = "no_results",
                          !.language = ""]
       ELSE sched' = [sched EXCEPT !.pc = "results", !.language = ""]
    /\ hist' = [hist EXCEPT !.requested = "none"]
    /\ UNCHANGED <<conn, delivered, clients, sessions, stats, cache,
                   last_request_time, tvars>>

----------------------------------------------------------------------------
(* Broadcast: broadcast_transcription *)

\* send_message catches ConnectionClosed and every other Exception of
\* websocket.send, so it never raises to its caller
SendMessageRaises(c) == FALSE

\* websocket.send delivers iff the connection is open
Delivers(c) == conn[c].state = "open"

KeySeq(d) == [i \in DOMAIN d |-> d[i].key]

\* `for user_id, session in self.clients.items():` creates the iterator
BroadcastStart ==
    /\ sched.pc = "results"
    /\ sched' = [sched EXCEPT !.pc = "bc", !.bc_items = clients,
                     !.bc_visited = {}, !.bc_yield = FALSE,
                     !.disconnected_clients = <<>>]
    /\ hist' = [hist EXCEPT !.bc_attempted = {},
            !.bc_closed = {clients[i].key : i \in {j \in DOMAIN clients :
                               ~Delivers(Session(clients[j].sid).websocket)}},
            !.sent[sched.batch.session] =
                sched.batch.chunks[Len(sched.batch.chunks)].audio_data]
    /\ delivered' = NoDelivery
    /\ UNCHANGED <<conn, clients, sessions, stats, cache,
                   last_request_time, tvars>>

\* the except clause of _process_audio_chunks (lines 679-682)
ProcessError ==
    /\ sessions' = [sessions EXCEPT
            ![sched.batch.session].processing_stats.errors = @ + 1]
    /\ stats' = [stats EXCEPT !.error_count = @ + 1]
    /\ sched' = [sched EXCEPT !.pc = "batch_done", !.outcome = "error",
                     !.results = <<>>, !.bc_items = <<>>, !.bc_visited = {},
                     !.bc_yield = FALSE, !.disconnected_clients = <<>>]
    /\ hist' = [hist EXCEPT !.bc_closed = {}, !.bc_attempted = {}]
    /\ delivered' = NoDelivery

RECURSIVE CleanupAll(_, _)
\* for user_id in disconnected_clients: await self._cleanup_client(user_id)
CleanupAll(ids, state) ==
    IF ids = <<>> THEN state
    ELSE LET user_id == Head(ids)
             has == HasKey(state.clients, user_id)
             sid == DictGet(state.clients, user_id)
             popped == DictPop(state.clients, user_id)
         IN  CleanupAll(Tail(ids),
                IF has
                THEN [clients |-> popped,
                      sessions |-> [state.sessions EXCEPT ![sid].is_active = FALSE],
                      stats |-> [state.stats EXCEPT !.active_clients = ActiveClients(popped)]]
                ELSE state)

\* the dict iterator's next(): RuntimeError when the dict's size differs from
\* its size at the iterator's creation (bc_items); when keys were removed and
\* added in equal number the iterator may raise or go on with the entries it
\* has not returned yet
Unvisited == {i \in DOMAIN clients : clients[i].key \notin sched.bc_visited}

\* one iteration of the fan-out loop, or the loop's end and the cleanup loop
BroadcastNext(raise) ==
    /\ sched.pc = "bc"
    /\ IF Len(clients) # Len(sched.bc_items)
          \/ (raise /\ KeySeq(clients) # KeySeq(sched.bc_items))
       THEN /\ ProcessError
            /\ UNCHANGED clients
       ELSE IF Unvisited = {}
       THEN LET r == CleanupAll(sched.disconnected_clients,
                        [clients |-> clients, sessions |-> sessions, stats |-> stats])
            IN  /\ clients' = r.clients
                /\ sessions' = r.sessions
                /\ stats' = r.stats
                /\ sched' = [sched EXCEPT !.pc = "bc_done",
                                 !.bc_visited = {}, !.bc_yield = FALSE,
                                 !.disconnected_clients = <<>>]
                /\ UNCHANGED <<delivered, hist>>
       ELSE LET i == CHOOSE j \in Unvisited : \A k \in Unvisited : j <= k
                user_id == clients[i].key
                sid == clients[i].sid
                ws == Session(sid).websocket
                message == [data |-> Head(sched.results),
                            listener |-> user_id,
                            listener_target |-> Session(sid).target_language]
            IN  IF ~Session(sid).is_active
                THEN /\ sched' = [sched EXCEPT !.bc_visited = @ \cup {user_id},
                                      !.bc_yield = FALSE]
                     /\ UNCHANGED <<clients, sessions, stats, delivered, hist>>
                ELSE IF SendMessageRaises(ws)
                THEN /\ sched' = [sched EXCEPT !.bc_visited = @ \cup {user_id},
                             !.bc_yield = FALSE,
                             !.disconnected_clients = Append(@, user_id)]
                     /\ sessions' = [sessions EXCEPT ![sid].is_active = FALSE]
                     /\ hist' = [hist EXCEPT !.bc_attempted = @ \cup {user_id}]
                     /\ UNCHANGED <<clients, stats, delivered>>
                ELSE /\ sched' = [sched EXCEPT !.bc_visited = @ \cup {user_id},
                             !.bc_yield = Delivers(ws)]
                     /\ delivered' = IF Delivers(ws)
                                     THEN [delivered EXCEPT ![ws] = <<message>>]
                                     ELSE delivered
                     /\ hist' = [hist EXCEPT !.bc_attempted = @ \cup {user_id}]
                     /\ UNCHANGED <<clients, sessions, stats>>
    /\ UNCHANGED <<conn, cache, last_request_time, tvars>>

\* broadcast_transcription has returned: lines 675-677, then the next result
BroadcastReturn ==
    /\ sched.pc = "bc_done"
    /\ LET result == Head(sched.results)
       IN  sessions' = [sessions EXCEPT
               ![sched.batch.session].processing_stats.transcriptions_sent = @ + 1,
               ![sched.batch.session].processing_stats.translations_sent =
                   IF result.translated_text # result.original_text
                   THEN @ + 1 ELSE @]
    /\ IF Tail(sched.results) = <<>>
       THEN sched' = [sched EXCEPT !.pc = "batch_done", !.outcome = "sent",
                          !.results = <<>>, !.bc_items = <<>>]
       ELSE sched' = [sched EXCEPT !.pc = "results", !.results = Tail(@),
                          !.bc_items = <<>>]
    /\ hist' = [hist EXCEPT !.bc_closed = {}, !.bc_attempted = {}]
    /\ delivered' = NoDelivery
    /\ UNCHANGED <<conn, clients, stats, cache, last_request_time, tvars>>

\* _process_audio_chunks has returned to the for loop of the pass
BatchDone ==
    /\ sched.pc = "batch_done"
    /\ sched' = [sched EXCEPT !.pc = "visit", !.idx = @ + 1, !.batch = NoBatch,
                     !.outcome = "none"]
    /\ hist' = [hist EXCEPT !.errors0 = 0, !.error_count0 = 0,
                            !.after_failure = FALSE]
    /\ UNCHANGED <<conn, delivered, clients, sessions, stats, cache,
                   last_request_time, tvars>>

----------------------------------------------------------------------------
(* translate called on the translator directly, with the clock            *)

\* (source_lang, target_lang) pairs of the direct calls
LangPairs == {<<"en", "en">>, <<"zh", "zh-cn">>, <<"auto", "auto">>,
              <<"en", "vi">>}

\* providers[provider]['rate_limit'], in tenths of a second
rate_limit(provider) == IF provider = "google" THEN 1 ELSE 5

\* what a provider's HTTP request for text can end in: an exception
\* (timeout, connection error), a status other than 200, or a body whose
\* text is the input, another text, or empty
CallResponses(text) ==
    {[kind |-> "raise", text |-> "", match |-> 0],
     [kind |-> "status", text |-> "", match |-> 0]}
    \cup {[kind |-> "ok", text |-> t, match |-> 100] :
             t \in {text, "xin chao the gioi", ""}}

\* a fallback that returns no text
FallbackNone(text) == [text |-> "", confidence |-> 0]

\* the fallback of translate: return text, 0.0
Fallback(text) == [text |-> text, confidence |-> 0]

\* a translate without the check of line 197
NeverShortCircuit(source_lang, target_lang) == FALSE

\* source_lang == target_lang and source_lang != 'auto', after normalizing
NoTranslationNeeded(source_lang, target_lang) ==
    source_lang = target_lang /\ source_lang # "auto"

\* a cache hit reported with the confidence of an untranslated text
CacheHitFullConfidence(key) == [text |-> CacheGet(key), confidence |-> 100]

\* return self.cache[cache_key], 0.9
CacheHit(key) == [text |-> CacheGet(key), confidence |-> 90]

\* translate(text, target_lang, source_lang) up to its first provider
TranslateCall(text, target_lang, source_lang) ==
    /\ call.pc = "idle"
    /\ call.done < MaxTranslateCalls
    /\ LET source == _normalize_lang_code(source_lang)
           target == _normalize_lang_code(target_lang)
           key == CacheKey(text, source, target)
           frame == [call EXCEPT !.text = text, !.source_lang = source,
                        !.target_lang = target, !.provider = 0,
                        !.done = @ + 1, !.requests = 0, !.cache0 = cache,
                        !.rest0 = cache_rest,
                        !.hit = \E e \in cache : e.key = key,
                        !.before = cache, !.stored = -1,
                        !.from_cache = FALSE,
                        !.contacted = <<>>, !.outcomes = <<>>]
       IN  IF IsBlank(text)
           THEN call' = [frame EXCEPT !.pc = "returned",
                            !.ret = [text |-> text, confidence |-> 0]]
           ELSE IF NoTranslationNeeded(source, target)
           THEN call' = [frame EXCEPT !.pc = "returned",
                            !.ret = [text |-> text, confidence |-> 100]]
           ELSE IF CacheHas(key)
           THEN call' = [frame EXCEPT !.pc = "returned", !.ret = CacheHit(key),
                            !.from_cache = TRUE]
           ELSE call' = [frame EXCEPT !.pc = "provider", !.provider = 1]
    /\ UNCHANGED <<conn, delivered, clients, sessions, stats, cache,
                   last_request_time, sched, hist, clock, cache_rest, vad>>

\* the request leaves: requests.get is called
Issue(provider) ==
    [call EXCEPT !.pc = "http", !.requests = @ + 1,
        !.contacted = Append(@, provider),
        !.gap[provider] = IF call.issued[provider] < 0 THEN -1
                           ELSE clock.now - call.issued[provider],
        !.issued[provider] = clock.now]

\* _translate_with_provider: sleep out the rest of the provider's interval
\* since last_request_time[provider], or go on to the request at once
ProviderStart ==
    /\ call.pc = "provider"
    /\ LET provider == Providers[call.provider]
           now == clock.now
           last_time == clock.last_time[provider]
       IN  IF provider \in last_request_time
              /\ now - last_time < rate_limit(provider)
           THEN call' = [call EXCEPT !.pc = "sleep",
                            !.wake = now + (rate_limit(provider) - (now - last_time))]
           ELSE call' = Issue(provider)
    /\ UNCHANGED <<conn, delivered, clients, sessions, stats, cache,
                   last_request_time, sched, hist, clock, cache_rest, vad>>

\* asyncio.sleep returns, not before its time
ProviderWake ==
    /\ call.pc = "sleep"
    /\ clock.now >= call.wake
    /\ call' = Issue(Providers[call.provider])
    /\ UNCHANGED <<conn, delivered, clients, sessions, stats, cache,
                   last_request_time, sched, hist, clock, cache_rest, vad>>

\* time passes between calls, during a sleep and during a request
Tick ==
    /\ call.pc \in {"idle", "sleep", "http"}
    /\ clock.now < MaxTime
    /\ clock' = [clock EXCEPT !.now = @ + 1]
    /\ UNCHANGED <<conn, delivered, clients, sessions, stats, cache,
                   last_request_time, sched, hist, call, cache_rest, vad>>

\* what a request for text ended in, as recorded in call.outcomes
Outcome(text, resp) ==
    CASE resp.kind = "raise" -> "raised"
      [] resp.kind = "status" -> "status"
      [] resp.text = text -> "same"
      [] resp.text = "" -> "empty"
      [] OTHER -> "changed"

\* requests.get returns or raises; the rest of the iteration of translate's
\* loop over the providers
ProviderReturn(resp) ==
    /\ call.pc = "http"
    /\ LET provider == Providers[call.provider]
           text == call.text
           key == CacheKey(text, call.source_lang, call.target_lang)
           r == ProviderResult(provider, text, resp)
       IN  /\ IF resp.kind = "raise"
              THEN UNCHANGED <<last_request_time, clock>>
              ELSE /\ last_request_time' = last_request_time \cup {provider}
                   /\ clock' = [clock EXCEPT !.last_time[provider] = clock.now]
           /\ IF r.text # "" /\ r.text # text
              THEN /\ cache' = IF CacheHasRoom
                               THEN CachePut(key, r.text) ELSE cache
                   /\ call' = [call EXCEPT !.pc = "returned", !.ret = r,
                                   !.outcomes = Append(@, Outcome(text, resp)),
                                   !.before = cache, !.stored = CacheLen,
                                   !.produced = @ \cup
                                       {[text |-> text,
                                         source |-> call.source_lang,
                                         target |-> call.target_lang,
                                         value |-> r.text]}]
              ELSE IF call.provider < Len(Providers)
              THEN /\ call' = [call EXCEPT !.pc = "provider", !.provider = @ + 1,
                                   !.outcomes = Append(@, Outcome(text, resp))]
                   /\ UNCHANGED cache
              ELSE /\ call' = [call EXCEPT !.pc = "returned", !.ret = Fallback(text),
                                   !.outcomes = Append(@, Outcome(text, resp))]
                   /\ UNCHANGED cache
    /\ UNCHANGED <<conn, delivered, clients, sessions, stats, sched, hist,
                   cache_rest, vad>>

\* the caller has the result
TranslateReturn ==
    /\ call.pc = "returned"
    /\ call' = [call EXCEPT !.pc = "idle"]
    /\ UNCHANGED <<conn, delivered, clients, sessions, stats, cache,
                   last_request_time, sched, hist, clock, cache_rest, vad>>

----------------------------------------------------------------------------
(* AudioProcessor: process_audio called on the audio processor directly    *)

\* what self.vad.is_speech does with a frame
FrameOutcomes == {"speech", "silence", "raise"}

\* range(0, len(audio_data) - self.frame_size * 2, self.frame_size * 2): the
\* frames the loop of _detect_voice_activity visits, by their ordinal; frame
\* k is audio_data[(k - 1) * 960 : k * 960]
VisitedFrames(len, frames) ==
    {k \in DOMAIN frames : (k - 1) * FrameBytes < len - FrameBytes}

\* _detect_voice_activity(audio_data).  A frame on which is_speech raises is
\* skipped by the bare except of lines 415-416; for a bytes buffer nothing
\* else in the body raises, so the clause of lines 425-427 is not entered
_detect_voice_activity(len, frames) ==
    IF len < FrameBytes THEN FALSE
    ELSE LET visited == VisitedFrames(len, frames)
             voice_frames == Cardinality({k \in visited : frames[k] = "speech"})
             total_frames == Cardinality({k \in visited : frames[k] # "raise"})
         IN  IF total_frames = 0 THEN FALSE
             ELSE voice_frames * 10 >= 3 * total_frames

\* process_audio(audio_data): the metadata it returns
process_audio(len, frames, quality) ==
    LET even == IF len % 2 # 0 THEN len - 1 ELSE len
    IN  IF even \div 2 = 0
        THEN [is_voice |-> FALSE, quality |-> 0]
        ELSE [is_voice |-> _detect_voice_activity(even, frames),
              quality |-> quality]

\* buffers of up to MaxFrames frames: a whole number of frames, or one or
\* two bytes more
BufferLengths == {k * FrameBytes + r : k \in 0..MaxFrames, r \in {0, 1, 2}}

\* process_audio is called and the quality gate reads its metadata
ProcessAudio(len, frames, quality) ==
    /\ vad.pc = "idle"
    /\ LET metadata == process_audio(len, frames, quality)
           even == IF len % 2 # 0 THEN len - 1 ELSE len
       IN  vad' = [pc |-> "done", len |-> len, frames |-> frames,
                   quality |-> quality, metadata |-> metadata,
                   raised |-> \E k \in VisitedFrames(even, frames) :
                                 frames[k] = "raise",
                   rejected |-> GateRejects(metadata.is_voice, metadata.quality)]
    /\ UNCHANGED <<conn, delivered, clients, sessions, stats, cache,
                   last_request_time, sched, hist, call, clock, cache_rest>>

\* the caller has the metadata
ProcessAudioReturn ==
    /\ vad.pc = "done"
    /\ vad' = VadInit
    /\ UNCHANGED <<conn, delivered, clients, sessions, stats, cache,
                   last_request_time, sched, hist, call, clock, cache_rest>>

----------------------------------------------------------------------------
(* Specifications *)

\* audio_data is accepted while the session has received fewer than max chunks
AudioAllowed(c, max) ==
    Registered(c) =>
        Session(DictGet(clients, conn[c].client_id))
            .processing_stats.audio_chunks_received < max

Scheduler ==
    \/ SchedWake
    \/ SchedVisit
    \/ SchedPassEnd
    \/ \E is_voice \in BOOLEAN, quality \in Qualities : QualityGate(is_voice, quality)
    \/ EngineRaise
    \/ \E segments \in SegmentLists, language \in EngineLanguages :
          EngineReturn(segments, language)
    \/ SegmentStep
    \/ ProviderRequest
    \/ \E resp \in ProviderResponses : ProviderResponse(resp)
    \/ SegmentsDone
    \/ BroadcastStart
    \/ \E raise \in BOOLEAN : BroadcastNext(raise)
    \/ BroadcastReturn
    \/ BatchDone

\* connect messages arrive while fewer than MaxRegistrations sessions were
\* created, and at any time while the registry holds max_clients sessions
Handlers ==
    \/ \E c \in Conns : Accept(c)
    \/ \E c \in Conns, userId \in UserIds \cup {None},
          displayLanguage \in DisplayLanguages :
          /\ stats.total_clients < MaxRegistrations \/ Len(clients) >= max_clients
          /\ OnConnect(c, userId, displayLanguage)
    \/ \E c \in Conns : AudioAllowed(c, MaxAudio) /\ OnAudioData(c, None)
    \/ \E c \in Conns : OnPing(c)
    \/ \E c \in Conns : Close(c)
    \/ \E c \in Conns : HandlerExit(c)

Next == Handlers \/ Scheduler

Spec == Init /\ [][Next]_vars

\* One connection streaming silence: the queue of one session between its
\* handler (producer) and the scheduler (consumer), up to its capacity
QueueNext ==
    \/ Accept(1)
    \/ stats.total_clients = 0 /\ OnConnect(1, <<"client", 1>>, "en")
    \/ AudioAllowed(1, MaxQueueAudio) /\ OnAudioData(1, None)
    \/ SchedWake
    \/ SchedVisit
    \/ SchedPassEnd
    \/ \E quality \in Qualities : QualityGate(FALSE, quality)
    \/ BatchDone

QueueSpec == Init /\ [][QueueNext]_vars

\* The handlers alone, with language_update messages: the registry and the
\* languages of its sessions
LanguageNext ==
    \/ \E c \in Conns : Accept(c)
    \/ \E c \in Conns, userId \in UserIds \cup {None},
          displayLanguage \in DisplayLanguages :
          /\ stats.total_clients < MaxRegistrations \/ Len(clients) >= max_clients
          /\ OnConnect(c, userId, displayLanguage)
    \/ \E c \in Conns, displayLanguage \in DisplayLanguages,
          nativeLanguage \in NativeLanguages :
          OnLanguageUpdate(c, displayLanguage, nativeLanguage)
    \/ \E c \in Conns : Close(c)
    \/ \E c \in Conns : HandlerExit(c)

LanguageSpec == Init /\ [][LanguageNext]_vars

\* The handlers alone, with messages that are not dispatched
MessageNext ==
    \/ \E c \in Conns : Accept(c)
    \/ \E c \in Conns, userId \in UserIds \cup {None},
          displayLanguage \in DisplayLanguages :
          /\ stats.total_clients < MaxRegistrations \/ Len(clients) >= max_clients
          /\ OnConnect(c, userId, displayLanguage)
    \/ \E c \in Conns : AudioAllowed(c, MaxAudio) /\ OnAudioData(c, None)
    \/ \E c \in Conns, message_raw \in OtherMessages : OnOtherMessage(c, message_raw)
    \/ \E c \in Conns : Close(c)
    \/ \E c \in Conns : HandlerExit(c)

MessageSpec == Init /\ [][MessageNext]_vars

\* One connection streaming audio in English to a session whose target is
\* English: the chunks of one session from its queue to the fan-out
OrderNext ==
    \/ Accept(1)
    \/ stats.total_clients = 0 /\ OnConnect(1, <<"client", 1>>, "en")
    \/ AudioAllowed(1, MaxOrderAudio) /\ OnAudioData(1, None)
    \/ Close(1)
    \/ SchedWake
    \/ SchedVisit
    \/ SchedPassEnd
    \/ \E is_voice \in BOOLEAN, quality \in Qualities : QualityGate(is_voice, quality)
    \/ EngineRaise
    \/ \E segments \in SegmentLists, language \in EngineLanguages :
          EngineReturn(segments, language)
    \/ SegmentStep
    \/ SegmentsDone
    \/ BroadcastStart
    \/ \E raise \in BOOLEAN : BroadcastNext(raise)
    \/ BroadcastReturn
    \/ BatchDone

OrderSpec == Init /\ [][OrderNext]_vars

\* The translator alone, called directly with every text and language pair.
\* Its cache holds no entry of the model's texts; it holds none at all, or
\* one less than its limit.  Time is let pass only while a call sleeps.
TranslateInit ==
    /\ conn = [c \in Conns |-> [state |-> "new", client_id |-> None]]
    /\ delivered = NoDelivery
    /\ clients = <<>>
    /\ sessions = <<>>
    /\ stats = [total_clients |-> 0, active_clients |-> 0,
                total_transcriptions |-> 0, total_translations |-> 0,
                error_count |-> 0]
    /\ cache = {}
    /\ last_request_time = {}
    /\ sched = SchedInit
    /\ hist = HistInit
    /\ call = CallInit
    /\ clock = ClockInit
    /\ cache_rest \in {0, cache_size_limit - 1}
    /\ vad = VadInit

TranslateNext ==
    \/ \E text \in TranslateTexts, pair \in LangPairs :
          TranslateCall(text, pair[2], pair[1])
    \/ ProviderStart
    \/ ProviderWake
    \/ call.pc = "sleep" /\ Tick
    \/ \E resp \in CallResponses(call.text) : ProviderReturn(resp)
    \/ TranslateReturn

TranslateSpec == TranslateInit /\ [][TranslateNext]_vars

\* One connection relaying the audio of several speakers: its audio_data
\* messages carry no speakerId or the id of another participant
SpeakerNext ==
    \/ Accept(1)
    \/ stats.total_clients = 0 /\ OnConnect(1, <<"client", 1>>, "en")
    \/ \E speakerId \in {None, <<"client", 2>>} :
          AudioAllowed(1, MaxSpeakerAudio) /\ OnAudioData(1, speakerId)
    \/ Close(1)
    \/ SchedWake
    \/ SchedVisit
    \/ SchedPassEnd
    \/ \E is_voice \in BOOLEAN, quality \in Qualities : QualityGate(is_voice, quality)
    \/ EngineRaise
    \/ \E segments \in SegmentLists, language \in EngineLanguages :
          EngineReturn(segments, language)
    \/ SegmentStep
    \/ SegmentsDone
    \/ BroadcastStart
    \/ \E raise \in BOOLEAN : BroadcastNext(raise)
    \/ BroadcastReturn
    \/ BatchDone

SpeakerSpec == Init /\ [][SpeakerNext]_vars

\* One connection whose session has target 'en' or 'vi', and an engine that
\* reports 'en' or 'vi' for segments the text heuristic is sure of, unsure
\* of, or silent about
ResolveNext ==
    \/ Accept(1)
    \/ \E displayLanguage \in {"en", "vi"} :
          stats.total_clients = 0 /\ OnConnect(1, <<"client", 1>>, displayLanguage)
    \/ AudioAllowed(1, MaxAudio) /\ OnAudioData(1, None)
    \/ Close(1)
    \/ SchedWake
    \/ SchedVisit
    \/ SchedPassEnd
    \/ \E is_voice \in BOOLEAN, quality \in Qualities : QualityGate(is_voice, quality)
    \/ EngineRaise
    \/ \E n \in 0..MaxSegments, language \in {"en", "vi"} :
          \E segments \in [1..n -> ResolveTexts \cup {"ok"}] :
             EngineReturn(segments, language)
    \/ SegmentStep
    \/ ProviderRequest
    \/ \E resp \in ProviderResponses : ProviderResponse(resp)
    \/ SegmentsDone
    \/ BroadcastStart
    \/ \E raise \in BOOLEAN : BroadcastNext(raise)
    \/ BroadcastReturn
    \/ BatchDone

ResolveSpec == Init /\ [][ResolveNext]_vars

\* One connection streaming audio until it closes and its handler exits,
\* with a scheduler task that is never kept from running for ever: whenever
\* it can take a step it eventually takes one, and the engine calls and
\* sends it makes return
LiveNext == OrderNext \/ HandlerExit(1)

LiveSpec == Init /\ [][LiveNext]_vars /\ WF_vars(Scheduler)

\* The audio processor alone, called with every buffer of up to MaxFrames
\* frames
VadNext ==
    \/ \E len \in BufferLengths, quality \in Qualities :
          \E frames \in [1..(len \div FrameBytes) -> FrameOutcomes] :
             ProcessAudio(len, frames, quality)
    \/ ProcessAudioReturn

VadSpec == Init /\ [][VadNext]_vars

\* The translator called with one text and language pair, time passing
\* freely: the requests each provider is sent and their times
RateNext ==
    \/ TranslateCall("hello world", "vi", "en")
    \/ ProviderStart
    \/ ProviderWake
    \/ Tick
    \/ \E resp \in CallResponses(call.text) : ProviderReturn(resp)
    \/ TranslateReturn

RateSpec == Init /\ [][RateNext]_vars

----------------------------------------------------------------------------
(* Claims *)

\* C1 (as claimed): every transcription result is delivered to each listener
\* translated into that listener's own target language.  When the speaker's
\* session has target 'en' and produced an English segment, the copy delivered
\* to a listener on another connection with target 'vi' carries
\* target_language 'vi' and a translated_text different from original_text,
\* and the copy delivered to a listener with target 'en' carries
\* translated_text = original_text.
C1_DeliveredInListenerLanguage ==
    \A c \in Conns :
        (/\ delivered[c] # <<>>
         /\ delivered[c][1].data.original_language = "en"
         /\ Session(sched.batch.session).target_language = "en"
         /\ (c # Session(sched.batch.session).websocket
                \/ delivered[c][1].listener = Session(sched.batch.session).user_id))
        => LET m == delivered[c][1]
           IN  /\ m.listener_target = "vi" =>
                     /\ m.data.target_language = "vi"
                     /\ m.data.translated_text # m.data.original_text
               /\ m.listener_target = "en" =>
                     m.data.translated_text = m.data.original_text

\* C2 (as claimed): when a broadcast began with exactly one of several
\* registered sessions having a closed connection, then by the time broadcast
\* returns delivery was
\* attempted to every other session, the closed session is marked inactive
\* and it is no longer in the registry, whose active count is one less.
C2_ClosedSessionRemoved ==
    (/\ sched.pc = "bc_done"
     /\ Len(sched.bc_items) > 1
     /\ Cardinality(hist.bc_closed) = 1)
    => \A i \in DOMAIN sched.bc_items :
          IF sched.bc_items[i].key \in hist.bc_closed
          THEN /\ ~HasKey(clients, sched.bc_items[i].key)
               /\ ~Session(sched.bc_items[i].sid).is_active
               /\ stats.active_clients = Len(sched.bc_items) - 1
          ELSE sched.bc_items[i].key \in hist.bc_attempted

\* C3 (as claimed): once the handler of a connection has exited, no session
\* registered over that connection is in the registry, whether its id was
\* supplied by the client or generated by the server.
C3_SessionDestroyedOnDisconnect ==
    \A c \in Conns :
        conn[c].state = "exited"
        => \A i \in DOMAIN clients : Session(clients[i].sid).websocket # c

\* C4: in every reachable state the aggregate active-session counter equals
\* the number of sessions in the registry.
C4_ActiveCountIsRegistrySize == stats.active_clients = Len(clients)

\* a second registration reused the first one's user id, which is in the
\* registry once
C4_Witness ==
    /\ Len(sessions) = 2
    /\ sessions[1].user_id = sessions[2].user_id
    /\ HasKey(clients, sessions[2].user_id)
    /\ \E c \in Conns : conn[c].state = "exited"

\* C5: every session's audio queue holds at most 100 chunks; an audio_data
\* message for a registered session can always be handled at once (it never
\* blocks), and when the queue is full the new chunk is dropped and the
\* queue's contents are unchanged.
C5_QueueWithinCapacity ==
    /\ \A sid \in DOMAIN sessions :
          Len(sessions[sid].audio_buffer) <= AudioBufferMaxSize
    /\ \A c \in Conns :
          (Receiving(c) /\ Registered(c)) => ENABLED OnAudioData(c, None)

C5_FullQueueDrops ==
    [][\A sid \in DOMAIN sessions :
          (/\ Len(sessions[sid].audio_buffer) = AudioBufferMaxSize
           /\ sessions'[sid].processing_stats.audio_chunks_received
                  = sessions[sid].processing_stats.audio_chunks_received + 1)
          => sessions'[sid].audio_buffer = sessions[sid].audio_buffer]_vars

C5_BoundedQueue == []C5_QueueWithinCapacity /\ C5_FullQueueDrops

\* the queue is full and the chunk received last is not in it
C5_Witness ==
    \E sid \in DOMAIN sessions :
        /\ Len(sessions[sid].audio_buffer) = AudioBufferMaxSize
        /\ sessions[sid].audio_buffer[AudioBufferMaxSize].audio_data
              < sessions[sid].processing_stats.audio_chunks_received

\* C6: the registry never holds more than max_clients sessions; while it
\* holds max_clients no step registers a session (no key and no session
\* object is added, total_clients is not incremented), and a refused
\* register leaves the registry, the sessions and the counters unchanged.
C6_WithinMaxClients == Len(clients) <= max_clients

C6_RefusedAtCapacity ==
    [][/\ AtCapacity =>
            /\ stats'.total_clients = stats.total_clients
            /\ Keys(clients') \subseteq Keys(clients)
            /\ Len(sessions') = Len(sessions)
       /\ (~hist.refused /\ hist'.refused) =>
            /\ AtCapacity
            /\ clients' = clients
            /\ sessions' = sessions
            /\ stats' = stats
            /\ conn' = conn]_vars

C6_CapacityRefusal == []C6_WithinMaxClients /\ C6_RefusedAtCapacity

\* a register was refused and the registry holds max_clients sessions
C6_Witness == hist.refused /\ Len(clients) = max_clients

\* C7 (as claimed): while a transcription-engine call or a translation HTTP
\* request is in progress, the handler of an open connection can still run
\* (here: answer a ping) before the call returns.
C7_HandlersRunDuringCall ==
    \A c \in Conns :
        (sched.pc \in {"engine", "http"} /\ conn[c].state = "open")
        => ENABLED OnPing(c)

\* C8 (as claimed): while the fan-out iterates over the registry no session
\* is added to it or removed from it.
C8_RegistryStableDuringFanOut ==
    sched.pc = "bc" => clients = sched.bc_items

\* C9: when an engine call fails, every session later in the same pass that
\* was active with queued audio is drained and handed on for processing
\* before the pass ends (unless it was cleaned up before its turn).
C9_PassSurvivesEngineFailure ==
    sched.pc = "sleep" => hist.owed = {}

\* after an engine failure in this pass, a later session's batch has reached
\* the engine
C9_Witness == sched.pc = "engine" /\ hist.after_failure

\* C10 (as claimed): when the engine call for a session's batch raises, no
\* result of the batch is broadcast and the session's error counter and the
\* aggregate error count are each incremented.
C10_EngineFailureCounted ==
    (sched.pc = "batch_done" /\ sched.outcome = "engine_raised")
    => /\ sched.results = <<>>
       /\ Session(sched.batch.session).processing_stats.errors = hist.errors0 + 1
       /\ stats.error_count = hist.error_count0 + 1

\* C13: translate always returns.  Whatever a provider's request ends in, the
\* call goes on; when every provider was asked and none gave a usable
\* translation (it raised, answered with an error status, or returned the
\* input or nothing), translate returns (text, 0.0) and the cache is as it
\* was when the call began.
C13_TranslateFallsBack ==
    /\ call.pc = "http" =>
          \A resp \in CallResponses(call.text) : ENABLED ProviderReturn(resp)
    /\ (/\ call.pc = "returned"
        /\ call.requests = Len(Providers)
        /\ call.stored < 0)
       => /\ call.ret = [text |-> call.text, confidence |-> 0]
          /\ cache = call.cache0
          /\ cache_rest = call.rest0

\* both providers were asked about a text and translate fell back
C13_Witness ==
    /\ call.pc = "returned"
    /\ call.requests = Len(Providers)
    /\ call.stored < 0
    /\ call.text = "H100+a"

\* C14 (as claimed): for every input text and every language pair whose
\* normalized source equals the normalized target and is not 'auto',
\* translate returns the text with confidence 1.0, asks no provider and does
\* not touch the cache.
C14_SameLanguageShortCircuit ==
    (/\ call.pc = "returned"
     /\ call.source_lang = call.target_lang
     /\ call.source_lang # "auto")
    => /\ call.ret = [text |-> call.text, confidence |-> 100]
       /\ call.requests = 0
       /\ cache = call.cache0

\* C14 (amended): for such a pair translate returns the text unchanged, asks
\* no provider and does not touch the cache; the
\* confidence is 1.0 when the text has a character that is not white space
\* and 0.0 when it has none.
C14_ShortCircuitUnlessBlank ==
    (/\ call.pc = "returned"
     /\ call.source_lang = call.target_lang
     /\ call.source_lang # "auto")
    => /\ call.ret.text = call.text
       /\ call.ret.confidence = IF IsBlank(call.text) THEN 0 ELSE 100
       /\ call.requests = 0
       /\ cache = call.cache0

\* a text of more than 100 characters from 'zh' to 'zh-cn' came back with
\* confidence 1.0
C14_Witness ==
    /\ call.pc = "returned"
    /\ call.source_lang = "zh-cn"
    /\ call.target_lang = "zh-cn"
    /\ call.text = "H100+b"
    /\ call.ret.confidence = 100

C16_WithinLimit == CacheLen <= cache_size_limit

C16_EntriesKept == [][cache \subseteq cache' /\ cache_rest' = cache_rest]_vars

C16_FullCacheNotExtended ==
    (call.pc = "returned" /\ call.stored = cache_size_limit)
    => /\ cache = call.before
       /\ call.ret.text = "xin chao the gioi"
       /\ call.ret.confidence =
             IF Providers[call.provider] = "google" THEN 80 ELSE 70

C16_CacheInsertOnly ==
    /\ [](C16_WithinLimit /\ C16_FullCacheNotExtended)
    /\ C16_EntriesKept

\* the first translation filled the cache, the second one was returned and
\* not cached
C16_Witness ==
    /\ call.pc = "returned"
    /\ call.stored = cache_size_limit
    /\ Cardinality(cache) = 1
    /\ call.ret.confidence = 70

\* C17 (as claimed): two consecutive requests to a provider are at least the
\* provider's interval apart, whatever the earlier request ended in.
C17_RequestsSpaced ==
    \A p \in {"google", "mymemory"} :
        call.gap[p] < 0 \/ call.gap[p] >= rate_limit(p)

\* C12: the scheduler is at the engine call, or anywhere after it in the
\* processing of a batch, only with a batch whose voice flag is true and
\* whose quality is at least the threshold; a batch with the voice flag false
\* or a lower quality goes from the gate to the end of its processing, in a
\* step that calls no engine, asks no provider and sends nothing.
C12_PastGate ==
    sched.pc \in {"engine", "segment", "translate", "http", "results", "bc",
                  "bc_done"}
    => /\ sched.batch.metadata.is_voice
       /\ sched.batch.metadata.quality >= QualityThreshold

C12_Dropped ==
    [][(/\ sched.pc = "gate"
        /\ \/ ~sched'.batch.metadata.is_voice
           \/ sched'.batch.metadata.quality < QualityThreshold)
       => /\ sched'.pc = "batch_done"
          /\ sched'.results = <<>>
          /\ UNCHANGED <<conn, delivered, clients, sessions, stats, cache,
                         last_request_time>>]_vars

C12_GateBeforeEngine == []C12_PastGate /\ C12_Dropped

\* a batch with voice in it and a quality just under the threshold was dropped
C12_Witness ==
    /\ sched.pc = "batch_done"
    /\ sched.outcome = "skipped"
    /\ sched.batch.metadata.is_voice
    /\ sched.batch.metadata.quality = QualityThreshold - 1

\* C11: the chunks of a session are numbered as they are received.  Every
\* queue holds its chunks in that order; a step that changes a queue either
\* adds the chunk just received at its tail or removes chunks from its head,
\* and these, in their order, are the batch the scheduler then holds; the
\* chunks left in the queue come after those of the batch; and a result is
\* handed to the fan-out only for the batch in hand, whose chunks come after
\* those of every batch of the session a result was sent for before.
C11_Increasing(chunks) ==
    \A i, j \in DOMAIN chunks :
        i < j => chunks[i].audio_data < chunks[j].audio_data

C11_QueuesInOrder ==
    /\ \A sid \in DOMAIN sessions : C11_Increasing(sessions[sid].audio_buffer)
    /\ C11_Increasing(sched.batch.chunks)
    /\ sched.batch.session # 0 =>
          /\ \A i \in DOMAIN sched.batch.chunks :
                sched.batch.chunks[i].session = sched.batch.session
          /\ C11_Increasing(sched.batch.chunks
                            \o sessions[sched.batch.session].audio_buffer)

C11_HeadFirst ==
    [][\A sid \in DOMAIN sessions :
          LET buffer == sessions[sid].audio_buffer
              after == sessions'[sid].audio_buffer
          IN  after # buffer =>
                 \/ /\ Len(after) = Len(buffer) + 1
                    /\ SubSeq(after, 1, Len(buffer)) = buffer
                    /\ after[Len(after)].audio_data =
                          sessions'[sid].processing_stats.audio_chunks_received
                 \/ \E n \in 1..Len(buffer) :
                       /\ n <= BatchLimit
                       /\ after = SubSeq(buffer, n + 1, Len(buffer))
                       /\ sched'.batch.chunks = SubSeq(buffer, 1, n)
                       /\ sched'.batch.session = sid]_vars

C11_SentInOrder ==
    [][(sched.pc = "results" /\ sched'.pc = "bc")
       => LET sid == sched.batch.session
              chunks == sched.batch.chunks
          IN  /\ sched'.batch = sched.batch
              /\ \/ hist.sent[sid] < chunks[1].audio_data
                 \/ hist.sent[sid] = chunks[Len(chunks)].audio_data]_vars

C11_EnqueueOrder == []C11_QueuesInOrder /\ C11_HeadFirst /\ C11_SentInOrder

\* a result of the session's second batch is being sent after one of its
\* first batch, which was a full one
C11_Witness ==
    /\ sched.pc = "bc"
    /\ Len(sched.batch.chunks) > 1
    /\ sched.batch.chunks[1].audio_data = BatchLimit + 1
    /\ Session(sched.batch.session).processing_stats.transcriptions_sent > 0

\* C18: in every reachable state, cleaning up an id twice gives the registry,
\* the sessions and the counters that cleaning it up once gives, and cleaning
\* up an id that is not in the registry gives back the state unchanged; a
\* handler that exits with an id that is no longer registered changes
\* nothing of them.
C18_Ids == UserIds \cup Keys(clients)

C18_OnceIsTwice ==
    \A user_id \in C18_Ids :
        LET state == [clients |-> clients, sessions |-> sessions, stats |-> stats]
            once == CleanupAll(<<user_id>>, state)
        IN  /\ CleanupResult(user_id) = once
            /\ CleanupAll(<<user_id, user_id>>, state) = once
            /\ ~HasKey(clients, user_id) => once = state
            /\ ~HasKey(once.clients, user_id)

C18_SecondCleanup ==
    [][\A c \in Conns :
          (/\ HandlerExit(c)
           /\ conn[c].client_id # None
           /\ ~HasKey(clients, conn[c].client_id))
          => UNCHANGED <<clients, sessions, stats>>]_vars

C18_CleanupIdempotent == []C18_OnceIsTwice /\ C18_SecondCleanup

\* two connections registered the same id one after the other, and both
\* handlers have exited: the second exit cleaned up an id already removed
C18_Witness ==
    /\ Len(sessions) = 2
    /\ sessions[1].user_id = sessions[2].user_id
    /\ sessions[1].websocket # sessions[2].websocket
    /\ \A c \in Conns : conn[c].state = "exited"
    /\ clients = <<>>
    /\ stats.active_clients = 0

\* the session a connection created last
C19_LastSession(c) ==
    CHOOSE sid \in DOMAIN sessions :
        /\ sessions[sid].websocket = c
        /\ \A other \in DOMAIN sessions :
              sessions[other].websocket = c => other <= sid

\* C19 (as claimed): when the session a connection registered last got a
\* generated id and is in the registry, the connection is bound to it: its
\* audio_data and language_update messages pass the test `client_id and
\* client_id in self.clients` and are applied to that session.
C19_GeneratedIdBindsConnection ==
    \A c \in Conns :
        (/\ conn[c].state = "open"
         /\ \E sid \in DOMAIN sessions : sessions[sid].websocket = c
         /\ sessions[C19_LastSession(c)].user_id[1] = "user"
         /\ HasKey(clients, sessions[C19_LastSession(c)].user_id))
        => /\ Registered(c)
           /\ DictGet(clients, conn[c].client_id) = C19_LastSession(c)

\* C20: a language_update for a registered connection sets the session's
\* target language to the displayLanguage code when the code is supported
\* and leaves it otherwise, and does the same, independently, for the native
\* language and the nativeLanguage code; it changes nothing else of the
\* session, of the other sessions or of the registry.  Every session's
\* target language is a supported code.
C20_TargetSupported ==
    /\ \A sid \in DOMAIN sessions : sessions[sid].target_language \in LANGUAGE_MAP
    /\ hist.update.sid # 0 =>
          LET u == hist.update
          IN  /\ sessions[u.sid].target_language =
                    IF u.displayLanguage \in LANGUAGE_MAP
                    THEN u.displayLanguage ELSE u.target_language
              /\ sessions[u.sid].native_language =
                    IF u.nativeLanguage \in LANGUAGE_MAP
                    THEN u.nativeLanguage ELSE u.native_language

C20_UpdateApplied ==
    [][hist'.update # hist.update
       => LET u == hist'.update
              old == sessions[u.sid]
          IN  /\ u.target_language = old.target_language
              /\ u.native_language = old.native_language
              /\ sessions' = [sessions EXCEPT ![u.sid] =
                     [old EXCEPT
                         !.target_language =
                             IF u.displayLanguage \in LANGUAGE_MAP
                             THEN u.displayLanguage ELSE old.target_language,
                         !.native_language =
                             IF u.nativeLanguage \in LANGUAGE_MAP
                             THEN u.nativeLanguage ELSE old.native_language]]
              /\ UNCHANGED <<clients, stats, conn, delivered, cache, sched>>]_vars

C20_PartialLanguageUpdate == []C20_TargetSupported /\ C20_UpdateApplied

\* a session registered with an unsupported code (so with target 'en') took
\* a native language from an update whose target code was unsupported
C20_Witness ==
    /\ hist.update.sid # 0
    /\ hist.update.displayLanguage = "xx"
    /\ hist.update.nativeLanguage = "vi"
    /\ hist.update.native_language = "auto"
    /\ sessions[hist.update.sid].target_language = "en"
    /\ sessions[hist.update.sid].native_language = "vi"

\* C21 (as claimed): a message with an unknown type is answered with the
\* generic 'Unknown message type' error and a message that is not valid JSON
\* with 'Invalid JSON format'; the step that answers leaves the connection
\* open and the registry, the sessions, their queues and the counters as they
\* were.
C21_ErrorReplies ==
    /\ hist.reply.raw \in {"unknown_type", "no_type"}
          => hist.reply.message = "Unknown message type"
    /\ hist.reply.raw \in {"malformed_text", "undecodable_bytes"}
          => hist.reply.message = "Invalid JSON format"

C21_ConnectionKept ==
    [][hist'.reply # hist.reply
       => /\ conn'[hist'.reply.conn].state = "open"
          /\ UNCHANGED <<conn, clients, sessions, stats>>]_vars

C21_BadMessageAnswered == []C21_ErrorReplies /\ C21_ConnectionKept

\* C22 (as claimed): whenever the speech detector raised on a frame of the
\* buffer it was given, process_audio reports is_voice true, so the gate does
\* not drop the batch unless its quality is under the threshold.
C22_DetectorFailsOpen ==
    (vad.pc = "done" /\ vad.raised)
    => /\ vad.metadata.is_voice
       /\ vad.rejected = (vad.metadata.quality < QualityThreshold)

\* C30 (as claimed): the buffer is declared voice if and only if, of all its
\* complete 30 ms frames, the last one included, at least one was classified
\* and the frames classified as speech are at least 30% of those classified.
C30_EveryCompleteFrameCounts ==
    vad.pc = "done"
    => LET voice == {k \in DOMAIN vad.frames : vad.frames[k] = "speech"}
           classified == {k \in DOMAIN vad.frames : vad.frames[k] # "raise"}
       IN  vad.metadata.is_voice =
              (/\ classified # {}
               /\ Cardinality(voice) * 10 >= 3 * Cardinality(classified))

\* C23: there is one scheduler task and it holds at most one batch.  It takes
\* chunks from a queue only when it holds no batch, so no batch of any
\* session, and none of the same session, is in processing then; the chunks
\* it takes are the batch it then holds, all of one session, and none of
\* them was taken before; and while a batch is in processing the chunks left
\* in its session's queue are later ones.
C23_BatchInHand ==
    /\ sched.pc \in {"sleep", "visit"} => sched.batch = NoBatch
    /\ sched.batch # NoBatch =>
          LET sid == sched.batch.session
              chunks == sched.batch.chunks
          IN  /\ \A i \in DOMAIN chunks : chunks[i].session = sid
              /\ hist.drained[sid] = chunks[Len(chunks)].audio_data
              /\ \A i \in DOMAIN sessions[sid].audio_buffer :
                    sessions[sid].audio_buffer[i].audio_data > hist.drained[sid]

C23_DrainWhenIdle ==
    [][(sched'.batch.chunks # sched.batch.chunks /\ sched'.batch # NoBatch)
       => LET sid == sched'.batch.session
              chunks == sched'.batch.chunks
          IN  /\ sched.pc = "visit"
              /\ sched.batch = NoBatch
              /\ chunks # <<>>
              /\ chunks[1].audio_data > hist.drained[sid]
              /\ sessions[sid].audio_buffer = chunks \o sessions'[sid].audio_buffer
              /\ \A other \in DOMAIN sessions :
                    other # sid => sessions'[other] = sessions[other]]_vars

C23_OneBatchAtATime == []C23_BatchInHand /\ C23_DrainWhenIdle

\* the second batch of a session is at the engine while a later chunk of the
\* session waits in its queue
C23_Witness ==
    /\ sched.pc = "engine"
    /\ sched.batch.chunks[1].audio_data > 1
    /\ Session(sched.batch.session).audio_buffer # <<>>

\* C24 (as claimed): the session a live connection registered stays that
\* connection's: while the connection is open, the registry holds under the
\* connection's id the session of this connection; neither the registration
\* nor the disconnect of another connection with the same id replaces or
\* removes it.
C24_CleanupOnlyOwnSession ==
    \A c \in Conns :
        (conn[c].state = "open" /\ conn[c].client_id # None)
        => /\ HasKey(clients, conn[c].client_id)
           /\ Session(DictGet(clients, conn[c].client_id)).websocket = c

\* C26 (as claimed): a result handed to the fan-out carries the speaker id
\* of every chunk of the batch it was produced from.
C26_ResultSpeakerIsChunkSpeaker ==
    sched.pc \in {"results", "bc", "bc_done"}
    => \A i \in DOMAIN sched.batch.chunks :
          sched.batch.chunks[i].speaker_id = Head(sched.results).speaker_id

\* C27 (as claimed): a call answered from the cache returns a translation
\* that a provider returned earlier for the same full text and the same
\* language pair.
C27_CacheAnswersOwnText ==
    (call.pc = "returned" /\ call.from_cache)
    => [text |-> call.text, source |-> call.source_lang,
        target |-> call.target_lang, value |-> call.ret.text] \in call.produced

\* the providers a call contacted are google alone or google and then
\* mymemory, and only a call that missed the cache contacts any
C28_FixedOrder ==
    /\ call.contacted \in {<<>>, <<"google">>, <<"google", "mymemory">>}
    /\ Len(call.outcomes) \in {Len(call.contacted) - 1, Len(call.contacted)}
    /\ call.contacted # <<>> =>
          /\ ~call.hit
          /\ ~IsBlank(call.text)
          /\ call.source_lang # call.target_lang \/ call.source_lang = "auto"

\* no provider is contacted after one returned a changed, non-empty text,
\* which is what translate returns
C28_StopsAtTranslation ==
    \A i \in DOMAIN call.outcomes :
        call.outcomes[i] = "changed"
        => /\ i = Len(call.contacted)
           /\ call.pc \in {"returned", "idle"}
           /\ call.ret.text = "xin chao the gioi"
           /\ call.ret.confidence = IF call.contacted[i] = "google" THEN 80 ELSE 70

\* C28 (as claimed): on a cache miss the providers are contacted in the
\* order google, mymemory; a provider is contacted only after each earlier
\* one raised (an error or a timeout), answered with an error status or
\* returned the input text; and none is contacted after one returned a
\* changed, non-empty text, which is what translate returns.
C28_NextOnlyAfterNonResult ==
    /\ C28_FixedOrder
    /\ C28_StopsAtTranslation
    /\ \A i \in DOMAIN call.contacted : \A j \in 1..(i - 1) :
          call.outcomes[j] \in {"raised", "status", "same"}

\* C28 (amended): the same, where the earlier providers may also have
\* returned an empty text.
C28_NextAfterNonResultOrEmpty ==
    /\ C28_FixedOrder
    /\ C28_StopsAtTranslation
    /\ \A i \in DOMAIN call.contacted : \A j \in 1..(i - 1) :
          call.outcomes[j] \in {"raised", "status", "same", "empty"}

\* google returned an empty text, mymemory was asked next and its translation
\* was returned
C28_Witness ==
    /\ call.pc = "returned"
    /\ call.contacted = <<"google", "mymemory">>
    /\ call.outcomes = <<"empty", "changed">>
    /\ call.ret = [text |-> "xin chao the gioi", confidence |-> 70]

\* C29: when _transcribe_audio handles a segment it keeps (and the engine
\* does not raise), the language it resolves is the text heuristic's when
\* the heuristic's confidence exceeds 0.5 and the engine's otherwise; it calls translate if and only if that
\* language differs from the session's target language; when it does not
\* call translate it appends a result with the resolved language, the
\* original text as translated_text and translation confidence 1.0; and every
\* result bears the resolved language of its segment.
C29_Resolved(text, language) ==
    IF detect_language_from_text(text).confidence > TextConfidenceThreshold
    THEN detect_language_from_text(text).lang
    ELSE language

C29_ResultsResolved ==
    \A i \in DOMAIN sched.results :
        LET r == sched.results[i]
        IN  /\ sched.pc \in {"segment", "translate", "http"} =>
                  r.original_language = C29_Resolved(r.original_text, sched.language)
            /\ r.original_language = r.target_language =>
                  /\ r.translated_text = r.original_text
                  /\ r.translation_confidence = 100

C29_TranslateIffDiffers ==
    [][(/\ sched.pc = "segment"
        /\ sched.segments # <<>>
        /\ TextLen(Head(sched.segments)) >= MinSegmentChars
        /\ sched'.pc \in {"segment", "translate"}
        /\ sched' # sched)
       => LET text == Head(sched.segments)
              resolved == C29_Resolved(text, sched.language)
              target == Session(sched.batch.session).target_language
          IN  /\ hist'.requested = IF resolved # target THEN "yes" ELSE "no"
              /\ resolved = target =>
                    /\ Len(sched'.results) = Len(sched.results) + 1
                    /\ sched'.results[Len(sched'.results)].original_text = text
                    /\ sched'.results[Len(sched'.results)].translated_text = text
                    /\ sched'.results[Len(sched'.results)].translation_confidence = 100
                    /\ sched'.results[Len(sched'.results)].original_language = resolved
                    /\ sched'.pc = "segment"
                    /\ UNCHANGED <<cache, last_request_time>>]_vars

C29_ResolvedLanguage == []C29_ResultsResolved /\ C29_TranslateIffDiffers

\* the engine reported 'en' for a Vietnamese segment of a session whose
\* target is 'vi': the heuristic's language was taken and no translation
\* was requested
C29_Witness ==
    /\ sched.pc = "segment"
    /\ sched.language = "en"
    /\ hist.requested = "no"
    /\ Len(sched.results) = 1
    /\ sched.results[1].original_text = "duoc"
    /\ sched.results[1].original_language = "vi"
    /\ sched.results[1].target_language = "vi"
    /\ sched.results[1].translation_confidence = 100

\* chunk n of session sid is in the session's queue
C25_Queued(sid, n) ==
    /\ sid \in DOMAIN sessions
    /\ \E i \in DOMAIN sessions[sid].audio_buffer :
          sessions[sid].audio_buffer[i].audio_data = n

\* session sid is in the registry and active
C25_Registered(sid) ==
    /\ sid \in DOMAIN sessions
    /\ sessions[sid].is_active
    /\ \E i \in DOMAIN clients : clients[i].sid = sid

\* C25: with a scheduler that is not kept from running for ever, every chunk
\* in a session's queue is eventually taken from the queue, unless the
\* session leaves the registry first.
C25_ChunkEventuallyDequeued ==
    \A sid \in 1..MaxRegistrations, n \in 1..MaxOrderAudio :
        C25_Queued(sid, n) ~> (~C25_Queued(sid, n) \/ ~C25_Registered(sid))

\* the sixth chunk of a session has been taken from the queue, in the
\* session's second batch, while the session is registered
C25_Witness ==
    /\ sched.batch.session = 1
    /\ sched.batch.chunks[1].audio_data = BatchLimit + 1
    /\ ~C25_Queued(1, BatchLimit + 1)
    /\ C25_Registered(1)

====
